---- MODULE Spec2Model ----
\* bq2csv: read a SQL script from stdin, run it in BigQuery, stream the rows
\* to stdout as delimited text, log execution statistics to stderr.
\* Model of main (src/README.md:127-204), Query (src/rowloader.go:96-280)
\* and RowLoader.Load (src/rowloader.go:40-65).
EXTENDS Integers, Sequences, FiniteSets, TLC

\* ------------------------------------------------------------------ bounds
\* most rows a cursor delivers in one run
MaxRows == 3
\* records the buffered writer under the csv encoder holds before it must
\* flush to stdout (the byte capacity of bufio.Writer, counted in records)
BufCap == 2
\* last clock reading; the clock stalls there
MaxClock == 3

\* --------------------------------------------------------------- constants
\* bigquery.NumericString renders with 9 fraction digits,
\* bigquery.BigNumericString with 38
NumericScaleDigits == 9
BigNumericScaleDigits == 38

\* ------------------------------------------------------------------- text
\* A text is a sequence of one-character strings.
Digit(d) == CASE d = 0 -> "0" [] d = 1 -> "1" [] d = 2 -> "2" [] d = 3 -> "3"
              [] d = 4 -> "4" [] d = 5 -> "5" [] d = 6 -> "6" [] d = 7 -> "7"
              [] d = 8 -> "8" [] d = 9 -> "9"

Abs(n) == IF n < 0 THEN -n ELSE n

RECURSIVE Utoa(_)
\* decimal digits of a natural number, no leading zeros ("0" for 0)
Utoa(n) == IF n < 10 THEN <<Digit(n)>> ELSE Utoa(n \div 10) \o <<Digit(n % 10)>>

\* strconv.FormatInt(val, 10)
FormatInt(val) == IF val < 0 THEN <<"-">> \o Utoa(-val) ELSE Utoa(val)

RECURSIVE TrimRight(_, _)
\* strings.TrimRight(s, cutset) for a one-character cutset
TrimRight(s, c) ==
    IF Len(s) > 0 /\ s[Len(s)] = c THEN TrimRight(SubSeq(s, 1, Len(s) - 1), c)
    ELSE s

RECURSIVE GCD(_, _)
GCD(a, b) == IF b = 0 THEN a ELSE GCD(b, a % b)

\* A *big.Rat is [num |-> Int, den |-> Nat \ {0}] in lowest terms.
Rat(n, d) == [num |-> n \div GCD(Abs(n), d), den |-> d \div GCD(Abs(n), d)]

RECURSIVE FracDigits(_, _, _)
\* the first prec digits of r/b (0 <= r < b) and the remainder left after
\* them, as <<digits, remainder>>
FracDigits(r, b, prec) ==
    IF prec = 0 THEN <<(<<>>), r>>
    ELSE LET rest == FracDigits((r * 10) % b, b, prec - 1)
         IN  <<(<<(r * 10) \div b>>) \o rest[1], rest[2]>>

RECURSIVE Incr(_)
\* add one to a sequence of decimal digits; <<digits, carry out>>
Incr(ds) ==
    IF Len(ds) = 0 THEN <<(<<>>), 1>>
    ELSE IF ds[Len(ds)] < 9
         THEN <<SubSeq(ds, 1, Len(ds) - 1) \o <<ds[Len(ds)] + 1>>, 0>>
         ELSE LET up == Incr(SubSeq(ds, 1, Len(ds) - 1))
              IN  <<up[1] \o <<0>>, up[2]>>

DigitsText(ds) == [i \in 1..Len(ds) |-> Digit(ds[i])]

\* (*big.Rat).FloatString(prec), prec > 0: sign, integer part, ".", prec
\* fraction digits, rounded half away from zero
FloatString(x, prec) ==
    LET a  == Abs(x.num)
        q  == a \div x.den
        fd == FracDigits(a % x.den, x.den, prec)
        up == 2 * fd[2] >= x.den
        rd == IF up THEN Incr(fd[1]) ELSE <<fd[1], 0>>
    IN  (IF x.num < 0 THEN <<"-">> ELSE <<>>)
        \o Utoa(q + rd[2]) \o <<".">> \o DigitsText(rd[1])

\* bigquery.NumericString / bigquery.BigNumericString
NumericString(x) == FloatString(x, NumericScaleDigits)
BigNumericString(x) == FloatString(x, BigNumericScaleDigits)

\* fmt.Sprint of a *big.Rat: Rat.String(), "a/b"
RatString(x) == FormatInt(x.num) \o <<"/">> \o Utoa(x.den)

\* fmt.Sprint of the other values the cursor can hold
Sprint(val) ==
    CASE val = "true"  -> <<"t", "r", "u", "e">>
      [] val = "false" -> <<"f", "a", "l", "s", "e">>
      [] OTHER         -> <<"<", "n", "i", "l", ">">>

RECURSIVE TrimRightSet(_, _)
TrimRightSet(s, cs) ==
    IF Len(s) > 0 /\ s[Len(s)] \in cs THEN TrimRightSet(SubSeq(s, 1, Len(s) - 1), cs)
    ELSE s

LoadCellOneCutset(c) ==
    CASE c.k = "string" -> c.v
      [] c.k = "int64"  -> FormatInt(c.v)
      [] c.k = "rat"    ->
            CASE c.t = "NUMERIC"    -> TrimRightSet(NumericString(c.v), {"0", "."})
              [] c.t = "BIGNUMERIC" -> TrimRightSet(BigNumericString(c.v), {"0", "."})
              [] OTHER              -> RatString(c.v)
      [] OTHER          -> Sprint(c.v)

\* A cell is [k |-> kind of the Go value, v |-> the value, t |-> schema type].
LoadCell(c) ==
    CASE c.k = "string" -> c.v
      [] c.k = "int64"  -> FormatInt(c.v)
      [] c.k = "rat"    ->
            CASE c.t = "NUMERIC"    -> TrimRight(TrimRight(NumericString(c.v), "0"), ".")
              [] c.t = "BIGNUMERIC" -> TrimRight(TrimRight(BigNumericString(c.v), "0"), ".")
              [] OTHER              -> RatString(c.v)
      [] OTHER          -> Sprint(c.v)

\* RowLoader.Load: the converted row
Load(row) == [i \in 1..Len(row) |-> LoadCell(row[i])]

\* ------------------------------------------------------------ environment
\* rows the service can return
RowA == <<[k |-> "string", t |-> "STRING", v |-> <<"a", ",", "b">>],
          [k |-> "int64", t |-> "INTEGER", v |-> -42]>>
RowB == <<[k |-> "rat", t |-> "NUMERIC", v |-> Rat(5, 1)],
          [k |-> "rat", t |-> "BIGNUMERIC", v |-> Rat(157, 50)]>>
RowC == <<[k |-> "other", t |-> "BOOLEAN", v |-> "true"],
          [k |-> "other", t |-> "STRING", v |-> "null"]>>
Rows == {RowA, RowB, RowC}

\* values of -f, as byte sequences: "", ",", a double quote, ";;" and
\* the two-byte encoding of one character (U+00E9)
Delimiters == {<<>>, <<44>>, <<34>>, <<59, 59>>, <<195, 169>>}

\* utf8.RuneCountInString: bytes that are not continuation bytes
RuneCount(s) == Cardinality({i \in 1..Len(s) : s[i] < 128 \/ s[i] > 191})

\* encoding/csv validDelim, called by (*csv.Writer).Write on w.Comma
validDelim(r) == r # 0 /\ r # 34 /\ r # 13 /\ r # 10

\* contents of standard input
Payloads == {<<>>, <<"S">>}

Min(a, b) == IF a < b THEN a ELSE b

\* ------------------------------------------------------------------ state
VARIABLES
    pc,              \* position of the single thread of control
    flags,           \* parsed command line: p, d, f, l, c, dr, v
    stdinIsTerminal, \* os.Stdin is a character device
    stdin,           \* bytes waiting on standard input
    stdinRead,       \* bytes of standard input consumed so far
    readErr,         \* io.ReadAll returned an error
    query,           \* the Query struct
    rowCount,        \* ExecuteQuery's local row counter
    rl,              \* RowLoader.Row, the last converted row
    w,               \* the csv writer: buffered records, sticky error, Comma
    client,          \* the BigQuery client: "none", "open", "closed"
    jobs,            \* query configurations submitted to the service
    now,             \* last reading of the clock
    Stdout,          \* records that reached standard output
    Stderr,          \* lines written to the diagnostics stream
    ret,             \* error value returned to main: "nil" or "err"
    exitCode,        \* -1 while running
    \* history
    connAttempts,    \* calls of bigquery.NewClient
    acquired,        \* clients obtained
    released,        \* calls of client.Close
    nextCalls,       \* calls of it.Next
    delivered,       \* rows it.Next handed over, in order
    written,         \* calls of w.Write that returned nil
    cursorEnd,       \* how iteration ended: "none", "done", "error", "write"
    outputFailed     \* an encoder Write or a write to stdout failed

vars == <<pc, flags, stdinIsTerminal, stdin, stdinRead, readErr, query, rowCount, rl, w,
          client, jobs, now, Stdout, Stderr, ret, exitCode, connAttempts,
          acquired, released, nextCalls, delivered, written, cursorEnd,
          outputFailed>>

env == <<flags, stdinIsTerminal, stdin>>
inVars == <<stdinRead, readErr>>
loopVars == <<rowCount, rl, w, Stdout, nextCalls, delivered, written, cursorEnd,
              outputFailed>>
connVars == <<client, connAttempts, acquired, released>>

\* the zero time.Time: earlier than every reading of the clock
ZeroTime == 0

\* the zero Query
NewQuery == [SQL |-> <<>>, Error |-> "nil",
             QueryStartTime |-> ZeroTime, QueryEndTime |-> ZeroTime,
             FirstRowReturnedTime |-> ZeroTime, AllRowsReturnedTime |-> ZeroTime,
             TotalRowsReturned |-> 0]

\* readings time.Now() can give after a reading of t
Ticks(t) == t..Min(t + 1, MaxClock)

Init ==
    /\ pc = "main"
    /\ flags \in [p : {"", "proj"}, d : {"", "ds"}, f : Delimiters,
                  l : {"", "EU"}, c : BOOLEAN, dr : BOOLEAN, v : BOOLEAN]
    /\ stdinIsTerminal \in BOOLEAN
    /\ stdin \in Payloads
    /\ stdinRead = 0
    /\ readErr = FALSE
    /\ query = NewQuery
    /\ rowCount = 0
    /\ rl = <<>>
    /\ w = [buf |-> <<>>, err |-> FALSE, Comma |-> 0]
    /\ client = "none"
    /\ jobs = <<>>
    /\ now = 1
    /\ Stdout = <<>>
    /\ Stderr = <<>>
    /\ ret = "nil"
    /\ exitCode = -1
    /\ connAttempts = 0
    /\ acquired = 0
    /\ released = 0
    /\ nextCalls = 0
    /\ delivered = <<>>
    /\ written = 0
    /\ cursorEnd = "none"
    /\ outputFailed = FALSE

\* os.Exit(code), or main returning (code 0)
Exit(code) == pc' = "exited" /\ exitCode' = code

\* lines the logger lets through: Debug lines only under -v
Debug(lines) == IF flags.v THEN lines ELSE <<>>

\* ------------------------------------------------------------------- main
\* main: "Validate the Required Flags"
RequiredFlagsMissing == flags.p = "" \/ flags.d = ""

ValidateFlags ==
    /\ pc = "main"
    /\ IF RequiredFlagsMissing
       THEN /\ Stderr' = Stderr \o <<"usage">>
            /\ Exit(1)
       ELSE /\ pc' = "delim"
            /\ UNCHANGED <<Stderr, exitCode>>
    /\ UNCHANGED <<env, inVars, query, loopVars, connVars, jobs, now, ret>>

\* main: "Validate that the Field Delimiter is 1 character": len() of a Go
\* string counts bytes
DelimiterRejected == Len(flags.f) # 1

\* main: the delimiter check, then the logger setup and the header lines
ValidateDelimiter ==
    /\ pc = "delim"
    /\ IF DelimiterRejected
       THEN /\ Stderr' = Stderr \o <<"usage">>
            /\ Exit(1)
       ELSE /\ Stderr' = Stderr \o <<"banner", "Arguments", "Begin">>
            /\ pc' = "read"
            /\ UNCHANGED exitCode
    /\ UNCHANGED <<env, inVars, query, loopVars, connVars, jobs, now, ret>>

\* Query.ReadStdIn
ReadStdIn ==
    /\ pc = "read"
    /\ IF stdinIsTerminal
       THEN /\ ret' = "err"
            /\ UNCHANGED <<stdinRead, readErr, query, Stderr>>
       ELSE \/ \* io.ReadAll fails after some of the bytes
               /\ \E n \in 0..Len(stdin) : stdinRead' = n
               /\ readErr' = TRUE
               /\ ret' = "err"
               /\ UNCHANGED <<query, Stderr>>
            \/ /\ stdinRead' = Len(stdin)
               /\ query' = [query EXCEPT !.SQL = stdin]
               /\ UNCHANGED readErr
               /\ Stderr' = Stderr \o Debug(<<"Query Details", "SQL">>)
               /\ ret' = "nil"
    /\ pc' = "readret"
    /\ UNCHANGED <<env, loopVars, connVars, jobs, now, exitCode>>

PayloadEmptyUnchecked == FALSE

\* main: "Check that something exists in SQL"
PayloadEmpty == Len(query.SQL) = 0

\* main after ReadStdIn returned
CheckSQL ==
    /\ pc = "readret"
    /\ IF ret = "err"
       THEN /\ Stderr' = Stderr \o <<"Check STDIN, No SQL Found">>
            /\ Exit(1)
       ELSE IF PayloadEmpty
       THEN /\ Stderr' = Stderr \o <<"Check STDIN, No SQL Found">>
            /\ Exit(1)
       ELSE /\ Stderr' = Stderr \o <<"Reading SQL Complete">>
            /\ pc' = "connect"
            /\ UNCHANGED exitCode
    /\ UNCHANGED <<env, inVars, query, loopVars, connVars, jobs, now, ret>>

\* main after ExecuteQueries returned
MainFinish ==
    /\ pc = "mainret"
    /\ IF ret = "err"
       THEN /\ Stderr' = Stderr \o <<"SQL Execution Failed">>
            /\ Exit(1)
       ELSE /\ Stderr' = Stderr \o <<"End">>
            /\ Exit(0)
    /\ UNCHANGED <<env, inVars, query, loopVars, connVars, jobs, now, ret>>

\* --------------------------------------------------------- ExecuteQueries
ExecutePathQuery == "query"

\* the branch "if dryRun" of ExecuteQueries
ExecutePath == IF flags.dr THEN "dryrun" ELSE "query"

\* ExecuteQueries up to the branch: bigquery.NewClient and the deferred Close
NewClient ==
    /\ pc = "connect"
    /\ Stderr' = Stderr \o <<"Establishing a BigQuery Client Connection">>
    /\ connAttempts' = connAttempts + 1
    /\ \/ /\ ret' = "err"
          /\ pc' = "mainret"
          /\ UNCHANGED <<client, acquired>>
       \/ /\ client' = "open"
          /\ acquired' = acquired + 1
          /\ pc' = ExecutePath
          /\ UNCHANGED ret
    /\ UNCHANGED <<env, inVars, query, loopVars, released, jobs, now, exitCode>>

\* client.Query(sql.SQL) configured by ExecuteQuery and ExecuteDryRun
Job(dry) == [SQL |-> query.SQL, DefaultProjectID |-> flags.p,
             DefaultDatasetID |-> flags.d, Location |-> flags.l,
             DisableQueryCache |-> flags.c, DryRun |-> dry]

\* Query.ExecuteDryRun
ExecuteDryRun ==
    /\ pc = "dryrun"
    /\ jobs' = Append(jobs, Job(TRUE))
    /\ \E t1 \in Ticks(now) :
          \/ \* q.Run fails, or the job's last status holds an error
             /\ \E e \in {"run", "status"} :
                   query' = [query EXCEPT !.QueryStartTime = t1, !.Error = e]
             /\ now' = t1
          \/ \E t2 \in Ticks(t1) :
                /\ query' = [query EXCEPT !.QueryStartTime = t1,
                                          !.QueryEndTime = t2]
                /\ now' = t2
    /\ pc' = "logdry"
    /\ UNCHANGED <<env, inVars, loopVars, connVars, Stderr, ret, exitCode>>

\* Query.LogExecuteDryRun
LogExecuteDryRun ==
    /\ pc = "logdry"
    /\ Stderr' = Stderr \o <<"Query Dry Run">> \o
                 (IF query.Error # "nil" THEN <<"error detail">>
                  ELSE <<"statistics">>)
    /\ pc' = "return"
    /\ UNCHANGED <<env, inVars, query, loopVars, connVars, jobs, now, ret,
                   exitCode>>

\* two successive readings of the clock, <<first, second>>
TwoReadings == {<<t1, t2>> \in (1..MaxClock) \X (1..MaxClock) :
                    t1 \in Ticks(now) /\ t2 \in Ticks(t1)}

ReadStampsSwapped == {[start |-> r[2], end |-> r[1], clock |-> r[2]] : r \in TwoReadings}

\* ExecuteQuery: QueryStartTime is read before q.Read, QueryEndTime after it
ReadStamps == {[start |-> r[1], end |-> r[2], clock |-> r[2]] : r \in TwoReadings}

\* Query.ExecuteQuery up to the loop: q.Read and the csv writer
QueryRead ==
    /\ pc = "query"
    /\ jobs' = Append(jobs, Job(FALSE))
    /\ \E s \in ReadStamps :
          /\ now' = s.clock
          /\ \/ /\ query' = [query EXCEPT !.QueryStartTime = s.start,
                                          !.QueryEndTime = s.end,
                                          !.Error = "read"]
                /\ pc' = "logquery"
                /\ UNCHANGED w
             \/ /\ query' = [query EXCEPT !.QueryStartTime = s.start,
                                          !.QueryEndTime = s.end]
                /\ w' = [buf |-> <<>>, err |-> FALSE, Comma |-> flags.f[1]]
                /\ pc' = "next"
    /\ UNCHANGED <<env, inVars, rowCount, rl, Stdout, nextCalls, delivered,
                   written, cursorEnd, outputFailed, connVars, Stderr, ret,
                   exitCode>>

\* os.Stdout.Write(buf): every record goes out, or a prefix and an error
StdoutWrite(buf) ==
    {[n |-> Len(buf), ok |-> TRUE]} \cup {[n |-> k, ok |-> FALSE] : k \in 0..(Len(buf) - 1)}

WriterFlushSkipped(wr) == {[w |-> wr, out |-> <<>>]}

\* (*csv.Writer).Flush over the bufio.Writer on os.Stdout: a no-op on an
\* empty buffer or after an error, else one write to stdout; what was not
\* written stays buffered and the error sticks. Flush returns nothing.
WriterFlush(wr) ==
    IF wr.err \/ Len(wr.buf) = 0
    THEN {[w |-> wr, out |-> <<>>]}
    ELSE {[w |-> [wr EXCEPT !.buf = SubSeq(@, o.n + 1, Len(@)), !.err = ~o.ok],
           out |-> SubSeq(wr.buf, 1, o.n)] : o \in StdoutWrite(wr.buf)}

\* (*csv.Writer).Write(record): rejects an invalid Comma, else buffers the
\* record, flushing the buffer to stdout first when it is full; the error
\* of that flush is the error Write returns
WriterWrite(wr, record) ==
    IF ~validDelim(wr.Comma)
    THEN {[w |-> wr, out |-> <<>>, err |-> TRUE]}
    ELSE IF Len(wr.buf) < BufCap /\ ~wr.err
    THEN {[w |-> [wr EXCEPT !.buf = Append(@, record)], out |-> <<>>, err |-> FALSE]}
    ELSE {[w |-> IF f.w.err THEN f.w ELSE [f.w EXCEPT !.buf = Append(@, record)],
           out |-> f.out, err |-> f.w.err] : f \in WriterFlush(wr)}

CountRowForgotten(n) == n

\* ExecuteQuery: "rowCount++" after a write that succeeded
CountRow(n) == n + 1

ContinueRows == "next"

\* ExecuteQuery: "return" inside the loop; the deferred Flush runs next
AbortRows == "flush"

FirstRowTicksEveryRow == Ticks(now)

\* ExecuteQuery: "if rowCount == 0 { sql.FirstRowReturnedTime = time.Now() }"
FirstRowTicks == IF rowCount = 0 THEN Ticks(now) ELSE {query.FirstRowReturnedTime}

\* Query.ExecuteQuery: one pass of the loop over it.Next
NextRow ==
    /\ pc = "next"
    /\ nextCalls' = nextCalls + 1
    /\ \E t1 \in FirstRowTicks :
        LET clock == IF rowCount = 0 THEN t1 ELSE now IN
          \/ \* iterator.Done
             \E t2 \in Ticks(clock) :
                /\ query' = [query EXCEPT !.FirstRowReturnedTime = t1,
                                          !.AllRowsReturnedTime = t2,
                                          !.TotalRowsReturned = rowCount]
                /\ now' = t2
                /\ cursorEnd' = "done"
                /\ pc' = "flush"
                /\ UNCHANGED <<rowCount, rl, w, Stdout, delivered, written,
                               outputFailed>>
          \/ \* any other error of it.Next
             /\ query' = [query EXCEPT !.FirstRowReturnedTime = t1,
                                       !.Error = "next"]
             /\ now' = clock
             /\ cursorEnd' = "error"
             /\ pc' = AbortRows
             /\ UNCHANGED <<rowCount, rl, w, Stdout, delivered, written,
                            outputFailed>>
          \/ \* a row: Load converts it, w.Write encodes it
             /\ Len(delivered) < MaxRows
             /\ \E row \in Rows : \E o \in WriterWrite(w, Load(row)) :
                   /\ delivered' = Append(delivered, row)
                   /\ rl' = Load(row)
                   /\ w' = o.w
                   /\ Stdout' = Stdout \o o.out
                   /\ now' = clock
                   /\ IF o.err
                      THEN /\ query' = [query EXCEPT !.FirstRowReturnedTime = t1,
                                                     !.Error = "write"]
                           /\ outputFailed' = TRUE
                           /\ cursorEnd' = "write"
                           /\ pc' = AbortRows
                           /\ UNCHANGED <<rowCount, written>>
                      ELSE /\ query' = [query EXCEPT !.FirstRowReturnedTime = t1]
                           /\ rowCount' = CountRow(rowCount)
                           /\ written' = written + 1
                           /\ UNCHANGED <<pc, cursorEnd, outputFailed>>
    /\ UNCHANGED <<env, inVars, connVars, jobs, Stderr, ret, exitCode>>

\* Query.ExecuteQuery: the deferred w.Flush() on the way out of the loop
DeferredFlush ==
    /\ pc = "flush"
    /\ \E o \in WriterFlush(w) :
          /\ w' = o.w
          /\ Stdout' = Stdout \o o.out
          /\ outputFailed' = (outputFailed \/ o.w.err)
    /\ pc' = "logquery"
    /\ UNCHANGED <<env, inVars, query, rowCount, rl, nextCalls, delivered,
                   written, cursorEnd, connVars, jobs, now, Stderr, ret, exitCode>>

\* Query.LogExecuteQuery
LogExecuteQuery ==
    /\ pc = "logquery"
    /\ Stderr' = Stderr \o <<"Query Execution">> \o
                 (IF query.Error # "nil" THEN <<"error detail">>
                  ELSE <<"statistics">>)
    /\ pc' = "return"
    /\ UNCHANGED <<env, inVars, query, loopVars, connVars, jobs, now, ret,
                   exitCode>>

ExecuteQueriesResultNil == "nil"

\* ExecuteQueries: "Raise an Error if query execution failed"
ExecuteQueriesResult == IF query.Error # "nil" THEN "err" ELSE "nil"

ReturnWithoutClose ==
    /\ pc = "return"
    /\ ret' = ExecuteQueriesResult
    /\ pc' = "mainret"
    /\ UNCHANGED <<env, inVars, query, loopVars, connVars, jobs, now, Stderr,
                   exitCode>>

\* ExecuteQueries: the return value and, on the way out, the deferred
\* client.Close()
ReturnExecuteQueries ==
    /\ pc = "return"
    /\ ret' = ExecuteQueriesResult
    /\ client' = "closed"
    /\ released' = released + 1
    /\ pc' = "mainret"
    /\ UNCHANGED <<env, inVars, query, loopVars, connAttempts, acquired, jobs,
                   now, Stderr, exitCode>>

\* ---------------------------------------------------------- specification
Next ==
    \/ ValidateFlags
    \/ ValidateDelimiter
    \/ ReadStdIn
    \/ CheckSQL
    \/ NewClient
    \/ ExecuteDryRun
    \/ LogExecuteDryRun
    \/ QueryRead
    \/ NextRow
    \/ DeferredFlush
    \/ LogExecuteQuery
    \/ ReturnExecuteQueries
    \/ MainFinish

Spec == Init /\ [][Next]_vars

TypeOK ==
    /\ pc \in {"main", "delim", "read", "readret", "connect", "dryrun", "logdry",
               "query", "next", "flush", "logquery", "return", "mainret", "exited"}
    /\ exitCode \in {-1, 0, 1}
    /\ now \in 1..MaxClock
    /\ rowCount \in 0..MaxRows
    /\ Len(w.buf) <= BufCap

\* ------------------------------------------------- RowLoader.Load alone
\* largest numerator of a decimal cell
MaxNum == 100

\* denominators of the decimal cells
Denominators == {1, 2, 3, 8, 10, 50, 1000}

\* *big.Rat cells under the two numeric schema types and under one that is
\* neither
DecimalCells ==
    {[k |-> "rat", t |-> ty, v |-> Rat(n, d)] :
        n \in (-MaxNum)..MaxNum, d \in Denominators,
        ty \in {"NUMERIC", "BIGNUMERIC", "FLOAT"}}

\* a cursor about to hand one row of one decimal cell to RowLoader.Load
InitLoad ==
    /\ pc = "load"
    /\ delivered \in {<<(<<c>>)>> : c \in DecimalCells}
    /\ flags = [p |-> "proj", d |-> "ds", f |-> <<44>>, l |-> "", c |-> FALSE,
                dr |-> FALSE, v |-> FALSE]
    /\ stdinIsTerminal = FALSE
    /\ stdin = <<"S">>
    /\ stdinRead = 1
    /\ readErr = FALSE
    /\ query = [NewQuery EXCEPT !.SQL = <<"S">>]
    /\ rowCount = 0
    /\ rl = <<>>
    /\ w = [buf |-> <<>>, err |-> FALSE, Comma |-> 44]
    /\ client = "open"
    /\ jobs = <<>>
    /\ now = 1
    /\ Stdout = <<>>
    /\ Stderr = <<>>
    /\ ret = "nil"
    /\ exitCode = -1
    /\ connAttempts = 1
    /\ acquired = 1
    /\ released = 0
    /\ nextCalls = 1
    /\ written = 0
    /\ cursorEnd = "none"
    /\ outputFailed = FALSE

\* RowLoader.Load called by it.Next on the row
LoadRow ==
    /\ pc = "load"
    /\ rl' = Load(delivered[1])
    /\ pc' = "loaded"
    /\ UNCHANGED <<env, inVars, query, rowCount, w, Stdout, nextCalls, delivered,
                   written, cursorEnd, outputFailed, connVars, jobs, now, Stderr,
                   ret, exitCode>>

NextLoad == LoadRow

SpecLoad == InitLoad /\ [][NextLoad]_vars

\* ----------------------------------------------------------------- claims
Exited == pc = "exited"

\* the records the rows the cursor handed over convert to, in cursor order
Converted == [i \in 1..Len(delivered) |-> Load(delivered[i])]

Logged(line) == \E i \in 1..Len(Stderr) : Stderr[i] = line

\* C1: a real run whose cursor hands over N rows and then reports exhaustion,
\* with stdout accepting every write, ends with exactly the N converted rows
\* on stdout in cursor order, TotalRowsReturned = N and exit code 0.
C1_SuccessfulRun ==
    (Exited /\ cursorEnd = "done" /\ ~outputFailed) =>
        /\ Stdout = Converted
        /\ query.TotalRowsReturned = Len(delivered)
        /\ exitCode = 0

\* three rows, more than the buffer holds, not all alike
C1_Witness ==
    /\ Exited /\ cursorEnd = "done" /\ ~outputFailed
    /\ Len(delivered) = 3
    /\ delivered[1] # delivered[2]
    /\ Stdout = Converted

\* C2: a real run whose cursor hands over k rows and then fails, with stdout
\* accepting every write, ends with exactly those k records on stdout (the
\* deferred Flush runs on the error path), a set error slot and exit code 1.
C2_CursorError ==
    (Exited /\ cursorEnd = "error" /\ ~outputFailed) =>
        /\ Stdout = Converted
        /\ query.Error # "nil"
        /\ exitCode = 1

\* one row, still in the buffer when the cursor fails
C2_Witness ==
    /\ Exited /\ cursorEnd = "error" /\ ~outputFailed
    /\ Len(delivered) = 1
    /\ Len(Stdout) = 1

\* C3: in a dry run nothing is buffered for or written to stdout, no cursor
\* is opened or advanced (the only job submitted is a dry-run job) and
\* TotalRowsReturned stays 0, whether the service accepts the query or not.
C3_DryRunSilent ==
    flags.dr =>
        /\ Stdout = <<>>
        /\ w.buf = <<>>
        /\ nextCalls = 0
        /\ delivered = <<>>
        /\ \A i \in 1..Len(jobs) : jobs[i].DryRun
        /\ query.TotalRowsReturned = 0

\* a dry run the service rejected, at exit
C3_Witness ==
    /\ Exited /\ flags.dr
    /\ Len(jobs) = 1
    /\ query.Error = "status"

\* the failures C4 lists, as the environment presents them
FailureKinds ==
    \/ flags.p = ""
    \/ flags.d = ""
    \/ RuneCount(flags.f) # 1
    \/ stdinIsTerminal
    \/ stdin = <<>> \/ readErr
    \/ connAttempts > acquired
    \/ query.Error # "nil"
    \/ outputFailed

\* C4: the exit code is 1 exactly when one of the listed failures happened
\* (missing flag, delimiter not one character, terminal input, empty
\* payload, no connection, dry run or execution failed, a row could not be
\* written); no such failure ends in exit code 0.
C4_ExitCode == Exited => (exitCode = 1 <=> FailureKinds)

\* C4, the half the buffered writer breaks: no failure ends in exit code 0
C4_NoFailureExitsZero == (Exited /\ FailureKinds) => exitCode = 1

\* the checks C5 lists
ValidationFails ==
    \/ flags.p = ""
    \/ flags.d = ""
    \/ RuneCount(flags.f) # 1
    \/ stdinIsTerminal
    \/ stdin = <<>>

\* C5: a connection is attempted and a query submitted only after the flags
\* were found non-empty, the delimiter one character, stdin not a terminal
\* and the payload non-empty; when a check fails there is no connection
\* attempt and the exit code is 1; terminal input is never read.
C5_ValidationFirst ==
    /\ (connAttempts > 0 \/ Len(jobs) > 0) =>
          /\ ~ValidationFails
          /\ query.SQL # <<>>
          /\ pc \notin {"main", "delim", "read", "readret"}
    /\ ValidationFails => /\ connAttempts = 0
                          /\ jobs = <<>>
                          /\ Exited => exitCode = 1
    /\ stdinIsTerminal => stdinRead = 0

\* terminal input with bytes pending: exit without reading or connecting
C5_Witness ==
    /\ Exited /\ exitCode = 1
    /\ stdinIsTerminal /\ Len(stdin) > 0
    /\ ~RequiredFlagsMissing /\ ~DelimiterRejected
    /\ stdinRead = 0 /\ connAttempts = 0

\* C6 as stated: in every terminal state of a real run TotalRowsReturned
\* equals the number of rows written.
C6_Original == (Exited /\ cursorEnd # "none") => query.TotalRowsReturned = written

\* C6 amended: the loop's local rowCount always equals the number of rows
\* written; TotalRowsReturned takes that value only on cursor exhaustion and
\* is left 0 when the run ends by a cursor error or a write failure.
C6_RowCounter ==
    /\ rowCount = written
    /\ (Exited /\ cursorEnd = "done") => query.TotalRowsReturned = written
    /\ (Exited /\ cursorEnd \in {"error", "write"}) => query.TotalRowsReturned = 0

\* a cursor error after two written rows
C6_Witness ==
    /\ Exited /\ cursorEnd = "error"
    /\ written = 2
    /\ query.TotalRowsReturned = 0

Chain(q) ==
    /\ q.QueryStartTime <= q.QueryEndTime
    /\ q.QueryEndTime <= q.FirstRowReturnedTime
    /\ q.FirstRowReturnedTime <= q.AllRowsReturnedTime

\* C7 as stated: whenever an invocation finishes with an empty error slot,
\* dry run or real run, the four timestamps are non-decreasing in order.
C7_Original == (Exited /\ query.Error = "nil") => Chain(query)

\* C7 amended: a real run that finishes with an empty error slot has its
\* four timestamps set and non-decreasing in order; a dry run that finishes
\* with an empty error slot has QueryStartTime <= QueryEndTime, both set,
\* and leaves the two row timestamps unset.
C7_Timestamps ==
    (Exited /\ query.Error = "nil" /\ Len(jobs) > 0) =>
        IF flags.dr
        THEN /\ ZeroTime < query.QueryStartTime
             /\ query.QueryStartTime <= query.QueryEndTime
             /\ query.FirstRowReturnedTime = ZeroTime
             /\ query.AllRowsReturnedTime = ZeroTime
        ELSE /\ ZeroTime < query.QueryStartTime
             /\ Chain(query)

\* a real run whose clock moved between submission and the last row
C7_Witness ==
    /\ Exited /\ query.Error = "nil" /\ ~flags.dr /\ cursorEnd = "done"
    /\ query.QueryStartTime < query.QueryEndTime
    /\ query.QueryEndTime < query.AllRowsReturnedTime

\* C8: once the error slot is set, the Query struct (error, timestamps, row
\* counter) no longer changes, the cursor is not advanced, no row is written
\* and no query is submitted; at most one query is submitted per invocation.
C8_ErrorTerminal ==
    /\ [](Len(jobs) <= 1)
    /\ [][query.Error # "nil" =>
            /\ query' = query
            /\ nextCalls' = nextCalls
            /\ written' = written
            /\ rowCount' = rowCount
            /\ delivered' = delivered
            /\ jobs' = jobs]_vars

\* a cursor error after a written row, run to the end
C8_Witness ==
    /\ Exited
    /\ query.Error = "next"
    /\ written = 1
    /\ nextCalls = 2

\* C9: a failure to write a row, met by the encoder's Write or by any later
\* flush of the buffer, sets the error slot, is reported on stderr and ends
\* in exit code 1.
C9_NoOutputFailureSwallowed ==
    (Exited /\ outputFailed) =>
        /\ query.Error # "nil"
        /\ Logged("error detail")
        /\ exitCode = 1

SummaryLogged == Logged("statistics") \/ Logged("error detail")

\* C10 as stated: the connection is acquired once and released once on
\* every path, and it is released before the statistics summary or the
\* error detail of the run is logged and before the process exits.
C10_Original ==
    /\ acquired <= 1 /\ released <= acquired
    /\ (Exited \/ SummaryLogged) => released = acquired

\* C10 amended: the connection is acquired once and released once on every
\* path out of ExecuteQueries; the release happens when ExecuteQueries
\* returns, after the statistics summary or the error detail of the run was
\* logged, and before main logs its last line and the process exits.
C10_ConnectionScoped ==
    /\ acquired <= 1 /\ released <= acquired
    /\ (client = "open") = (acquired = 1 /\ released = 0)
    /\ released = 1 => SummaryLogged
    /\ (Exited \/ Logged("End") \/ Logged("SQL Execution Failed")) =>
          released = acquired

\* the write-error path, run to the end
C10_Witness ==
    /\ Exited
    /\ cursorEnd = "write"
    /\ acquired = 1 /\ released = 1 /\ client = "closed"

IsDigit(ch) == ch \in {"0", "1", "2", "3", "4", "5", "6", "7", "8", "9"}

\* where the decimal point of a fixed-scale string stands
DotAt(s) == CHOOSE i \in 1..Len(s) : s[i] = "."

\* optional minus, integer digits, one point, scale fraction digits
FixedScale(s, scale) ==
    /\ Cardinality({i \in 1..Len(s) : s[i] = "."}) = 1
    /\ Len(s) - DotAt(s) = scale
    /\ \A i \in (DotAt(s) + 1)..Len(s) : IsDigit(s[i])
    /\ LET first == IF s[1] = "-" THEN 2 ELSE 1
       IN  /\ first < DotAt(s)
           /\ \A i \in first..(DotAt(s) - 1) : IsDigit(s[i])

\* the fixed-scale string with the trailing zeros of its fraction removed,
\* and the point too when no fraction digit is left
Trimmed(s) ==
    LET dot  == DotAt(s)
        kept == {i \in (dot + 1)..Len(s) : \E j \in i..Len(s) : s[j] # "0"}
    IN  IF kept = {} THEN SubSeq(s, 1, dot - 1)
        ELSE SubSeq(s, 1, dot + Cardinality(kept))

\* C11: a decimal cell of schema type NUMERIC or BIGNUMERIC is rendered as
\* its fixed-scale string (9 or 38 fraction digits) without the trailing
\* zeros of the fraction and without the point when no fraction digit is
\* left, sign and integer part untouched; both kinds trim alike; a decimal
\* cell of another schema type is rendered by fmt.Sprint, untrimmed.
C11_DecimalRendering ==
    pc = "loaded" =>
        LET c == delivered[1][1] IN
        CASE c.t = "NUMERIC" ->
                /\ FixedScale(NumericString(c.v), NumericScaleDigits)
                /\ rl[1] = Trimmed(NumericString(c.v))
          [] c.t = "BIGNUMERIC" ->
                /\ FixedScale(BigNumericString(c.v), BigNumericScaleDigits)
                /\ rl[1] = Trimmed(BigNumericString(c.v))
          [] OTHER -> rl[1] = FormatInt(c.v.num) \o <<"/">> \o FormatInt(c.v.den)

\* 100 as NUMERIC: "100.000000000" becomes "100"
C11_Witness ==
    /\ pc = "loaded"
    /\ delivered[1][1].t = "NUMERIC"
    /\ delivered[1][1].v = Rat(100, 1)
    /\ rl = <<(<<"1", "0", "0">>)>>

\* -7/50 as BIGNUMERIC: "-0.14"
C11_WitnessFraction ==
    /\ pc = "loaded"
    /\ delivered[1][1].t = "BIGNUMERIC"
    /\ delivered[1][1].v = Rat(-7, 50)
    /\ rl = <<(<<"-", "0", ".", "1", "4">>)>>

\* 1/10 under another schema type: "1/10", the zero kept
C11_WitnessDefault ==
    /\ pc = "loaded"
    /\ delivered[1][1].t = "FLOAT"
    /\ rl = <<(<<"1", "/", "1", "0">>)>>

\* C12 as stated: FirstRowReturnedTime is set only when the cursor delivers
\* a first row; a real run whose cursor delivers no row leaves it unset.
C12_Original ==
    (Exited /\ nextCalls > 0 /\ Len(delivered) = 0) =>
        query.FirstRowReturnedTime = ZeroTime

\* C12 amended: FirstRowReturnedTime is set exactly once, when the first
\* call of it.Next returns, whether it returns a row, exhaustion or an
\* error; later rows never update it; it stays unset only when the cursor is
\* never advanced.
C12_FirstRowStamp ==
    /\ []((query.FirstRowReturnedTime # ZeroTime) = (nextCalls > 0))
    /\ [][/\ query.FirstRowReturnedTime # ZeroTime =>
                query'.FirstRowReturnedTime = query.FirstRowReturnedTime
          /\ query'.FirstRowReturnedTime # query.FirstRowReturnedTime =>
                (nextCalls = 0 /\ nextCalls' = 1)]_vars

\* two rows and exhaustion after the clock moved: the stamp of the first
\* advance is still there
C12_Witness ==
    /\ Exited /\ cursorEnd = "done"
    /\ Len(delivered) = 2
    /\ ZeroTime < query.FirstRowReturnedTime
    /\ query.FirstRowReturnedTime < query.AllRowsReturnedTime

\* an empty result: stamped all the same
C12_WitnessEmpty ==
    /\ Exited /\ cursorEnd = "done"
    /\ Len(delivered) = 0
    /\ ZeroTime < query.FirstRowReturnedTime

====
